---- MODULE Spec2Model ----
(***************************************************************************)
(* The positioner plugin's window extension (plugins/positioner/src/ext.rs) *)
(* as a state machine: the Position enum and its wire codes, and the two   *)
(* methods of WindowExt, move_window and move_window_with_monitor, taken   *)
(* one host call at a time, next to the host's window, monitor and tray    *)
(* state.  The model is of the build with the "system-tray" feature on,    *)
(* the build the tray variants and the tray lookup exist in.               *)
(***************************************************************************)
EXTENDS Integers, Sequences, FiniteSets, TLC

VARIABLES
    request,        \* the call in flight towards the window: [some, code, entry, mon]
    calls,          \* how many calls the window has received
    code,           \* wire code of the call being served
    decoded,        \* what the code deserialized to: a Position, "Err", or "none"
    entry,          \* "move_window" or "move_window_with_monitor"
    pc,             \* where the calling thread stands
    pos,            \* the Position argument
    lookup,         \* what current_monitor() answered: "none", "Err", "None", "Some"
    monitor,        \* monitor_position and monitor_size: [x, y, w, h]
    ww,             \* window_size.width
    wh,             \* window_size.height
    tray_position,  \* Option<(i32, i32)>: [some, x, y]
    tray_size,      \* Option<(i32, i32)>: [some, w, h]
    physical_pos,   \* the position handed to set_position: [some, x, y]
    result,         \* "none", "Ok", "Err", "Panic", "Rejected"
    panicMsg,       \* the panic's message
    winSize,        \* the window's outer size, held by the host: [w, h]
    winPos,         \* the window's position, held by the host: [x, y]
    tray,           \* the Tray state's record: [present, x, y, w, h]
    trayLock,       \* holder of the Tray mutex: "free", "mover", "host"
    hostPc,         \* where the host's tray event handler stands
    hostNew,        \* the icon rectangle the handler is recording
    measured,       \* history: both outer_size() reads of this call are done
    sizesDuring,    \* history: the outer sizes the window has had during this call
    snapped,        \* history: this call has copied the tray record
    trayAtLock,     \* history: the tray record when this call took the lock
    winPosAtStart,  \* history: the window position when this call began
    prev            \* history: inputs and outcome of the first resolution

vars == <<request, calls, code, decoded, entry, pc, pos, lookup, monitor, ww, wh,
          tray_position, tray_size, physical_pos, result, panicMsg, winSize,
          winPos, tray, trayLock, hostPc, hostNew, measured, sizesDuring,
          snapped, trayAtLock, winPosAtStart, prev>>

\* ------------------------------------------------------------------ bounds

\* Monitor and tray coordinates of the wide input grid range over -MaxPos..MaxPos.
MaxPos == 1
\* Monitor, window and tray dimensions of the wide input grid range over 0..MaxDim.
MaxDim == 2
\* Wire codes tried range over -1..MaxCode.
MaxCode == 16
\* Calls served in the sequential specification.
MaxSeqCalls == 3
\* Calls served in the concurrent specification.
MaxConcCalls == 2

\* ------------------------------------------------------- the Position enum

\* The variants in declaration order.
PositionDecl ==
    << "TopLeft", "TopRight", "BottomLeft", "BottomRight", "TopCenter",
       "BottomCenter", "LeftCenter", "RightCenter", "Center",
       "TrayLeft", "TrayBottomLeft", "TrayRight", "TrayBottomRight",
       "TrayCenter", "TrayBottomCenter" >>

Position == { PositionDecl[i] : i \in DOMAIN PositionDecl }

\* The explicit discriminant of the first variant.
FirstDiscriminant == 0

\* Largest value of the enum's representation type, u16.
U16Max == 65535

DeclIndex(p) == CHOOSE i \in DOMAIN PositionDecl : PositionDecl[i] = p

\* A variant off by one: the declaration index taken as the discriminant.
Discriminant_OneBased(p) == DeclIndex(p)

\* A variant without an explicit discriminant gets its predecessor's plus one.
Discriminant(p) == FirstDiscriminant + (DeclIndex(p) - 1)

\* Deserialize_repr: read a u16, then match it against the discriminants.
Deserialize(c) ==
    IF c < 0 \/ c > U16Max THEN "Err"
    ELSE IF \E p \in Position : Discriminant(p) = c
         THEN CHOOSE p \in Position : Discriminant(p) = c
         ELSE "Err"

\* ------------------------------------------------------------- arithmetic

I32Max == 2147483647

\* `as i32` of a u32: values above i32::MAX wrap around.
AsI32(v) == IF v > I32Max THEN (v - I32Max) - I32Max - 2 ELSE v

\* Rust's integer division truncates towards zero.
TruncDiv(a, b) == IF a >= 0 THEN a \div b ELSE -((-a) \div b)

NoPos == [some |-> FALSE, x |-> 0, y |-> 0]
NoSize == [some |-> FALSE, w |-> 0, h |-> 0]
NoTray == [present |-> FALSE, x |-> 0, y |-> 0, w |-> 0, h |-> 0]
NoMonitor == [x |-> 0, y |-> 0, w |-> 0, h |-> 0]
NoRequest == [some |-> FALSE, code |-> 0, entry |-> "move_window", mon |-> NoMonitor]
NoPrev ==
    [set |-> FALSE, pos |-> "TopLeft", mon |-> NoMonitor, ww |-> 0, wh |-> 0,
     tp |-> NoPos, ts |-> NoSize, panic |-> FALSE, x |-> 0, y |-> 0]

\* The copy made under the lock: (Some(pos), Some(size)), or the default (None, None).
TraySnapshot(t) ==
    IF t.present
    THEN << [some |-> TRUE, x |-> AsI32(t.x), y |-> AsI32(t.y)],
            [some |-> TRUE, w |-> AsI32(t.w), h |-> AsI32(t.h)] >>
    ELSE << NoPos, NoSize >>

At(px, py) == [panic |-> FALSE, msg |-> "", x |-> px, y |-> py]
Panics(m) == [panic |-> TRUE, msg |-> m, x |-> 0, y |-> 0]

\* ------------------------------------------------- the resolution's arms

MonitorPositions ==
    { "TopLeft", "TopRight", "BottomLeft", "BottomRight", "TopCenter",
      "BottomCenter", "LeftCenter", "RightCenter", "Center" }
TrayPositions == Position \ MonitorPositions
BottomPositions == { "BottomLeft", "BottomRight", "BottomCenter" }

\* monitor_position.x + (monitor_size.width - window_size.width)
RightX(mx, mw, w) == mx + (mw - w)

\* A variant that centres the difference instead of differencing the halves.
CenterX_HalfOfDifference(mx, mw, w) == mx + TruncDiv(mw - w, 2)

\* monitor_position.x + ((monitor_size.width / 2) - (window_size.width / 2))
CenterX(mx, mw, w) == mx + (TruncDiv(mw, 2) - TruncDiv(w, 2))

\* A variant with the monitor's y on the wrong side of the subtraction.
BottomY_SignSlip(my, mh, h) == mh - (h + my)

\* monitor_size.height - (window_size.height - monitor_position.y)
BottomY(my, mh, h) == mh - (h - my)

\* A variant that starts from where the window is now, not from the monitor.
CenterY_FromWindow(my, mh, h) == (winPos.y + TruncDiv(mh, 2)) - TruncDiv(h, 2)

\* monitor_position.y + (monitor_size.height / 2) - (window_size.height / 2)
CenterY(my, mh, h) == (my + TruncDiv(mh, 2)) - TruncDiv(h, 2)

\* A variant that puts the window below the icon's row instead of above it.
TrayAboveY_Below(ty, h) == ty + h

\* tray_y - window_size.height
TrayAboveY(ty, h) == ty - h

\* tray_x + tray_width
TrayRightX(tx, tw) == tx + tw

\* tray_x + (tray_width / 2) - (window_size.width / 2)
TrayCenterX(tx, tw, w) == (tx + TruncDiv(tw, 2)) - TruncDiv(w, 2)

\* `match pos { ... }`: the position to move to, or the panic of a tray arm
\* whose `if let` finds None.  m is the monitor, w and h the window size,
\* tp and ts the two options copied from the tray record.
ResolvePosition(p, m, w, h, tp, ts) ==
    CASE p = "TopLeft" -> At(m.x, m.y)
      [] p = "TopRight" -> At(RightX(m.x, m.w, w), m.y)
      [] p = "BottomLeft" -> At(m.x, BottomY(m.y, m.h, h))
      [] p = "BottomRight" -> At(RightX(m.x, m.w, w), BottomY(m.y, m.h, h))
      [] p = "TopCenter" -> At(CenterX(m.x, m.w, w), m.y)
      [] p = "BottomCenter" -> At(CenterX(m.x, m.w, w), BottomY(m.y, m.h, h))
      [] p = "LeftCenter" -> At(m.x, CenterY(m.y, m.h, h))
      [] p = "RightCenter" -> At(RightX(m.x, m.w, w), CenterY(m.y, m.h, h))
      [] p = "Center" -> At(CenterX(m.x, m.w, w), CenterY(m.y, m.h, h))
      [] p = "TrayLeft" ->
            IF tp.some THEN At(tp.x, TrayAboveY(tp.y, h))
            ELSE Panics("tray position not set")
      [] p = "TrayBottomLeft" ->
            IF tp.some THEN At(tp.x, tp.y)
            ELSE Panics("Tray position not set")
      [] p = "TrayRight" ->
            IF tp.some /\ ts.some THEN At(TrayRightX(tp.x, ts.w), TrayAboveY(tp.y, h))
            ELSE Panics("Tray position not set")
      [] p = "TrayBottomRight" ->
            IF tp.some /\ ts.some THEN At(TrayRightX(tp.x, ts.w), tp.y)
            ELSE Panics("Tray position not set")
      [] p = "TrayCenter" ->
            IF tp.some /\ ts.some
            THEN At(TrayCenterX(tp.x, ts.w, w), TrayAboveY(tp.y, h))
            ELSE Panics("Tray position not set")
      [] p = "TrayBottomCenter" ->
            IF tp.some /\ ts.some THEN At(TrayCenterX(tp.x, ts.w, w), tp.y)
            ELSE Panics("Tray position not set")

\* ------------------------------------------------------------- the inputs

Entries == { "move_window", "move_window_with_monitor" }
Codes == -1 .. MaxCode
Grid == -MaxPos .. MaxPos
Dims == 0 .. MaxDim

\* The two worked scenarios: a monitor with a window, a tray icon with a window.
ScenarioMonitor == [x |-> 0, y |-> 0, w |-> 1920, h |-> 1080]
ScenarioWindow == [w |-> 400, h |-> 300]
ScenarioTray == [present |-> TRUE, x |-> 1900, y |-> 1060, w |-> 20, h |-> 20]
ScenarioTrayWindow == [w |-> 300, h |-> 400]

\* A second monitor, right of and below the origin.
SecondMonitor == [x |-> 1920, y |-> 40, w |-> 1280, h |-> 720]
\* Another place and size of the tray icon.
OtherTray == [present |-> TRUE, x |-> 10, y |-> 0, w |-> 24, h |-> 32]

WideMonitors ==
    [x : Grid, y : Grid, w : Dims, h : Dims] \cup { ScenarioMonitor }
WideSizes == [w : Dims, h : Dims] \cup { ScenarioWindow, ScenarioTrayWindow }
WideTrays ==
    [present : { TRUE }, x : Grid, y : Grid, w : Dims, h : { 0, MaxDim }]
        \cup { ScenarioTray, NoTray }

NarrowCodes == { 8, 13, 15 }
NarrowMonitors == { ScenarioMonitor, SecondMonitor }
NarrowSizes == { ScenarioWindow, ScenarioTrayWindow }
NarrowTrays == { ScenarioTray, OtherTray }

\* The anchors the host records, and the record before the first of them.
RecordedAnchors == WideTrays \cup NarrowTrays

Req(c, e, m) == [some |-> TRUE, code |-> c, entry |-> e, mon |-> m]

\* ------------------------------------------------------------------ states

InCall == pc \notin { "idle", "panicked" }

Begin(in, sz, t) ==
    /\ request = in
    /\ calls = 0
    /\ code = 0
    /\ decoded = "none"
    /\ entry = "move_window"
    /\ pc = "idle"
    /\ pos = "none"
    /\ lookup = "none"
    /\ monitor = NoMonitor
    /\ ww = 0
    /\ wh = 0
    /\ tray_position = NoPos
    /\ tray_size = NoSize
    /\ physical_pos = NoPos
    /\ result = "none"
    /\ panicMsg = ""
    /\ winSize = sz
    /\ winPos = [x |-> 0, y |-> 0]
    /\ tray = t
    /\ trayLock = "free"
    /\ hostPc = "idle"
    /\ hostNew = NoTray
    /\ measured = FALSE
    /\ sizesDuring = {}
    /\ snapped = FALSE
    /\ trayAtLock = NoTray
    /\ winPosAtStart = [x |-> 0, y |-> 0]
    /\ prev = NoPrev

\* One call in flight: every monitor placement on every monitor and size of the
\* grid, every tray placement on every tray and size of the grid, and every code
\* and entry point on the scenarios.
Init ==
    \/ \E c \in 0 .. 8, m \in WideMonitors, sz \in WideSizes :
            Begin(Req(c, "move_window_with_monitor", m), sz, NoTray)
    \/ \E c \in 9 .. 14, m \in NarrowMonitors, sz \in WideSizes, t \in WideTrays :
            Begin(Req(c, "move_window_with_monitor", m), sz, t)
    \/ \E c \in Codes, e \in Entries, m \in NarrowMonitors, sz \in NarrowSizes,
           t \in NarrowTrays \cup { NoTray } :
            Begin(Req(c, e, m), sz, t)

\* No call yet, no tray icon yet, the window at one of its sizes.
InitNarrow == \E sz \in NarrowSizes : Begin(NoRequest, sz, NoTray)

\* ------------------------------------------------- the caller of the window

\* A caller sends a placement by code, for one entry point, while the window
\* is on monitor m (for move_window_with_monitor, m is the argument).
Submit(cs, ms, limit) ==
    /\ pc = "idle"
    /\ ~request.some
    /\ calls < limit
    /\ \E c \in cs, e \in Entries, m \in ms : request' = Req(c, e, m)
    /\ UNCHANGED <<calls, code, decoded, entry, pc, pos, lookup, monitor, ww, wh,
                   tray_position, tray_size, physical_pos, result, panicMsg,
                   winSize, winPos, tray, trayLock, hostPc, hostNew, measured,
                   sizesDuring, snapped, trayAtLock, winPosAtStart, prev>>

\* The locals of a method that has not been entered or has returned.
NoLocals ==
    /\ pos' = "none"
    /\ lookup' = "none"
    /\ monitor' = NoMonitor
    /\ ww' = 0
    /\ wh' = 0
    /\ tray_position' = NoPos
    /\ tray_size' = NoSize
    /\ physical_pos' = NoPos
    /\ measured' = FALSE
    /\ sizesDuring' = {}
    /\ snapped' = FALSE
    /\ trayAtLock' = NoTray

\* The method returns res to its caller, the window at wp; its locals are gone.
Return(res, wp) ==
    /\ result' = res
    /\ pc' = "idle"
    /\ entry' = "none"
    /\ winPosAtStart' = wp
    /\ NoLocals

\* The code is deserialized to a Position and the method is entered; a code
\* that is no discriminant is rejected and no method runs.
Receive ==
    /\ pc = "idle"
    /\ request.some
    /\ request' = [request EXCEPT !.some = FALSE]
    /\ calls' = calls + 1
    /\ code' = request.code
    /\ decoded' = Deserialize(request.code)
    /\ panicMsg' = ""
    /\ IF decoded' = "Err"
       THEN Return("Rejected", winPos)
       ELSE /\ result' = "none"
            /\ entry' = request.entry
            /\ pos' = decoded'
            /\ lookup' = "none"
            /\ ww' = 0
            /\ wh' = 0
            /\ tray_position' = NoPos
            /\ tray_size' = NoSize
            /\ physical_pos' = NoPos
            /\ measured' = FALSE
            /\ sizesDuring' = { winSize }
            /\ snapped' = FALSE
            /\ trayAtLock' = NoTray
            /\ winPosAtStart' = winPos
            /\ IF request.entry = "move_window"
               THEN pc' = "current_monitor" /\ monitor' = NoMonitor
               ELSE pc' = "outer_size_width" /\ monitor' = request.mon
    /\ UNCHANGED <<winSize, winPos, tray, trayLock, hostPc, hostNew, prev>>

\* ------------------------------------------------------------- move_window

\* self.current_monitor()?.expect("No monitor detected")
CurrentMonitor ==
    /\ pc = "current_monitor"
    /\ \/ /\ Return("Err", winPos)
          /\ UNCHANGED panicMsg
       \/ /\ lookup' = "None"
          /\ result' = "Panic"
          /\ panicMsg' = "No monitor detected"
          /\ pc' = "panicked"
          /\ UNCHANGED <<entry, pos, monitor, ww, wh, tray_position, tray_size,
                         physical_pos, measured, sizesDuring, snapped, trayAtLock,
                         winPosAtStart>>
       \/ /\ lookup' = "Some"
          /\ monitor' = request.mon
          /\ pc' = "outer_size_width"
          /\ UNCHANGED <<entry, pos, ww, wh, tray_position, tray_size, result,
                         physical_pos, measured, sizesDuring, snapped, trayAtLock,
                         winPosAtStart, panicMsg>>
    /\ UNCHANGED <<request, calls, code, decoded, winSize, winPos, tray, trayLock,
                   hostPc, hostNew, prev>>

\* ------------------------------------------------ move_window_with_monitor

\* width: self.outer_size()?.width as i32
OuterSizeWidth ==
    /\ pc = "outer_size_width"
    /\ \/ Return("Err", winPos)
       \/ /\ ww' = AsI32(winSize.w)
          /\ pc' = "outer_size_height"
          /\ UNCHANGED <<entry, pos, lookup, monitor, wh, tray_position, tray_size,
                         physical_pos, result, measured, sizesDuring, snapped,
                         trayAtLock, winPosAtStart>>
    /\ UNCHANGED <<request, calls, code, decoded, panicMsg, winSize, winPos, tray,
                   trayLock, hostPc, hostNew, prev>>

\* height: self.outer_size()?.height as i32
OuterSizeHeight ==
    /\ pc = "outer_size_height"
    /\ \/ Return("Err", winPos)
       \/ /\ wh' = AsI32(winSize.h)
          /\ measured' = TRUE
          /\ pc' = "lock"
          /\ UNCHANGED <<entry, pos, lookup, monitor, ww, tray_position, tray_size,
                         physical_pos, result, sizesDuring, snapped, trayAtLock,
                         winPosAtStart>>
    /\ UNCHANGED <<request, calls, code, decoded, panicMsg, winSize, winPos, tray,
                   trayLock, hostPc, hostNew, prev>>

\* A variant that reads the record without waiting for the mutex.
LockTray_NoMutex ==
    /\ pc = "lock"
    /\ trayLock' = IF trayLock = "free" THEN "mover" ELSE trayLock
    /\ trayAtLock' = tray
    /\ pc' = "copy"
    /\ UNCHANGED <<request, calls, code, decoded, entry, pos, lookup, monitor, ww,
                   wh, tray_position, tray_size, physical_pos, result, panicMsg,
                   winSize, winPos, tray, hostPc, hostNew, measured, sizesDuring,
                   snapped, winPosAtStart, prev>>

\* self.state::<Tray>().0.lock().unwrap(): the call waits while the host holds
\* the mutex.  No holder of the mutex panics, so it is never poisoned.
LockTray ==
    /\ pc = "lock"
    /\ trayLock = "free"
    /\ trayLock' = "mover"
    /\ trayAtLock' = tray
    /\ pc' = "copy"
    /\ UNCHANGED <<request, calls, code, decoded, entry, pos, lookup, monitor, ww,
                   wh, tray_position, tray_size, physical_pos, result, panicMsg,
                   winSize, winPos, tray, hostPc, hostNew, measured, sizesDuring,
                   snapped, winPosAtStart, prev>>

\* .map(|(pos, size)| (Some(..), Some(..))).unwrap_or_default(); the guard is a
\* temporary of the let statement and is dropped at its end.
CopyTray ==
    /\ pc = "copy"
    /\ tray_position' = TraySnapshot(tray)[1]
    /\ tray_size' = TraySnapshot(tray)[2]
    /\ snapped' = TRUE
    /\ trayLock' = IF trayLock = "mover" THEN "free" ELSE trayLock
    /\ pc' = "resolve"
    /\ UNCHANGED <<request, calls, code, decoded, entry, pos, lookup, monitor, ww,
                   wh, physical_pos, result, panicMsg, winSize, winPos, tray,
                   hostPc, hostNew, measured, sizesDuring, trayAtLock,
                   winPosAtStart, prev>>

\* let physical_pos = match pos { ... }
Resolve ==
    /\ pc = "resolve"
    /\ LET r == ResolvePosition(pos, monitor, ww, wh, tray_position, tray_size) IN
        /\ IF r.panic
           THEN /\ result' = "Panic"
                /\ panicMsg' = r.msg
                /\ pc' = "panicked"
                /\ UNCHANGED physical_pos
           ELSE /\ physical_pos' = [some |-> TRUE, x |-> r.x, y |-> r.y]
                /\ pc' = "set_position"
                /\ UNCHANGED <<result, panicMsg>>
        /\ prev' = IF prev.set THEN prev
                   ELSE [set |-> TRUE, pos |-> pos, mon |-> monitor, ww |-> ww,
                         wh |-> wh, tp |-> tray_position, ts |-> tray_size,
                         panic |-> r.panic, x |-> r.x, y |-> r.y]
    /\ UNCHANGED <<request, calls, code, decoded, entry, pos, lookup, monitor, ww,
                   wh, tray_position, tray_size, winSize, winPos, tray, trayLock,
                   hostPc, hostNew, measured, sizesDuring, snapped, trayAtLock,
                   winPosAtStart>>

\* self.set_position(tauri::Position::Physical(physical_pos))
SetPosition ==
    /\ pc = "set_position"
    /\ \/ /\ UNCHANGED winPos
          /\ Return("Err", winPos)
       \/ /\ winPos' = [x |-> physical_pos.x, y |-> physical_pos.y]
          /\ Return("Ok", winPos')
    /\ UNCHANGED <<request, calls, code, decoded, panicMsg, winSize, tray, trayLock,
                   hostPc, hostNew, prev>>

\* ------------------------------------------------------------------ the host

\* The window is resized to another of its sizes.
Resize(sizes, concurrent) ==
    /\ concurrent \/ (pc = "idle" /\ ~request.some)
    /\ \E sz \in sizes \ { winSize } :
        /\ winSize' = sz
        /\ sizesDuring' = IF InCall THEN sizesDuring \cup { sz } ELSE sizesDuring
    /\ UNCHANGED <<request, calls, code, decoded, entry, pc, pos, lookup, monitor,
                   ww, wh, tray_position, tray_size, physical_pos, result,
                   panicMsg, winPos, tray, trayLock, hostPc, hostNew, measured,
                   snapped, trayAtLock, winPosAtStart, prev>>

\* A tray icon event: the handler takes the Tray mutex to record the icon's
\* rectangle ...
HostLock(trays, concurrent) ==
    /\ concurrent \/ (pc = "idle" /\ ~request.some)
    /\ hostPc = "idle"
    /\ trayLock = "free"
    /\ \E t \in trays \ { tray } : hostNew' = t
    /\ trayLock' = "host"
    /\ hostPc' = "write_position"
    /\ UNCHANGED <<request, calls, code, decoded, entry, pc, pos, lookup, monitor,
                   ww, wh, tray_position, tray_size, physical_pos, result,
                   panicMsg, winSize, winPos, tray, measured, sizesDuring,
                   snapped, trayAtLock, winPosAtStart, prev>>

\* ... stores the position ...
HostWritePosition ==
    /\ hostPc = "write_position"
    /\ tray' = [tray EXCEPT !.x = hostNew.x, !.y = hostNew.y]
    /\ hostPc' = "write_size"
    /\ UNCHANGED <<request, calls, code, decoded, entry, pc, pos, lookup, monitor,
                   ww, wh, tray_position, tray_size, physical_pos, result,
                   panicMsg, winSize, winPos, trayLock, hostNew, measured,
                   sizesDuring, snapped, trayAtLock, winPosAtStart, prev>>

\* ... then the size, and releases the mutex.
HostWriteSize ==
    /\ hostPc = "write_size"
    /\ tray' = [tray EXCEPT !.present = TRUE, !.w = hostNew.w, !.h = hostNew.h]
    /\ trayLock' = IF trayLock = "host" THEN "free" ELSE trayLock
    /\ hostPc' = "idle"
    /\ UNCHANGED <<request, calls, code, decoded, entry, pc, pos, lookup, monitor,
                   ww, wh, tray_position, tray_size, physical_pos, result,
                   panicMsg, winSize, winPos, hostNew, measured, sizesDuring,
                   snapped, trayAtLock, winPosAtStart, prev>>

\* ------------------------------------------------------- the specifications

Call ==
    \/ Receive
    \/ CurrentMonitor
    \/ OuterSizeWidth
    \/ OuterSizeHeight
    \/ LockTray
    \/ CopyTray
    \/ Resolve
    \/ SetPosition

\* One call, on the wide inputs.
Next == Call
Spec == Init /\ [][Next]_vars

\* Calls one after another; the window and the tray icon change between them.
NextSeq ==
    \/ Call
    \/ Submit(NarrowCodes, NarrowMonitors, MaxSeqCalls)
    \/ Resize(NarrowSizes, FALSE)
    \/ HostLock(NarrowTrays, FALSE)
    \/ HostWritePosition
    \/ HostWriteSize
SpecSeq == InitNarrow /\ [][NextSeq]_vars

\* Calls with the window resized and the tray icon recorded at any moment.
NextConc ==
    \/ Call
    \/ Submit(NarrowCodes, NarrowMonitors, MaxConcCalls)
    \/ Resize(NarrowSizes, TRUE)
    \/ HostLock(NarrowTrays, TRUE)
    \/ HostWritePosition
    \/ HostWriteSize
SpecConc == InitNarrow /\ [][NextConc]_vars

\* ------------------------------------------------------------- the claims

\* The reference tables, as the specification words them.  Every division is
\* of a non-negative dimension, where truncating and flooring division agree.
RefX(p, mx, mw, w) ==
    CASE p \in { "TopLeft", "BottomLeft", "LeftCenter" } -> mx
      [] p \in { "TopRight", "BottomRight", "RightCenter" } -> mx + (mw - w)
      [] p \in { "TopCenter", "BottomCenter", "Center" } ->
            mx + ((mw \div 2) - (w \div 2))

RefY(p, my, mh, h) ==
    CASE p \in { "TopLeft", "TopRight", "TopCenter" } -> my
      [] p \in { "BottomLeft", "BottomRight", "BottomCenter" } -> mh - (h - my)
      [] p \in { "LeftCenter", "RightCenter", "Center" } ->
            my + ((mh \div 2) - (h \div 2))

TrayRefX(p, tx, tw, w) ==
    CASE p \in { "TrayLeft", "TrayBottomLeft" } -> tx
      [] p \in { "TrayRight", "TrayBottomRight" } -> tx + tw
      [] p \in { "TrayCenter", "TrayBottomCenter" } -> (tx + (tw \div 2)) - (w \div 2)

TrayRefY(p, ty, h) ==
    CASE p \in { "TrayLeft", "TrayRight", "TrayCenter" } -> ty - h
      [] p \in { "TrayBottomLeft", "TrayBottomRight", "TrayBottomCenter" } -> ty

Moved(px, py) == physical_pos = [some |-> TRUE, x |-> px, y |-> py]

\* A tray placement whose copy of the tray record came out empty.
AnchorMissing == pos \in TrayPositions /\ snapped /\ ~tray_position.some

\* C1: a tray-relative request resolved while the tray anchor is absent ends in
\* an error returned to the caller: no coordinate, no move of the window, and
\* no panic.
C1_MissingAnchorIsError ==
    (AnchorMissing /\ pc # "resolve") =>
        /\ ~physical_pos.some
        /\ winPos = winPosAtStart
        /\ result = "Err"
        /\ pc # "panicked"

\* C2: when current_monitor() reports that no monitor was found, move_window
\* returns an error value to its caller and does not panic; the resolver is
\* not entered and the window is not moved.
C2_NoMonitorIsError ==
    lookup = "None" =>
        /\ result = "Err"
        /\ pc # "panicked"
        /\ ~measured /\ ~snapped /\ ~physical_pos.some
        /\ winPos = winPosAtStart

\* C3: for the nine monitor-relative requests, on non-negative monitor and
\* window sizes, the position handed to set_position is the reference table's,
\* and the worked scenario gives TopLeft=(0,0), TopRight=(1520,0),
\* Center=(760,390), BottomRight=(1520,780).
C3_MonitorRelativeTable ==
    (/\ pos \in MonitorPositions
     /\ physical_pos.some
     /\ monitor.w >= 0 /\ monitor.h >= 0 /\ ww >= 0 /\ wh >= 0) =>
        /\ physical_pos.x = RefX(pos, monitor.x, monitor.w, ww)
        /\ physical_pos.y = RefY(pos, monitor.y, monitor.h, wh)
        /\ pos = "TopLeft" => Moved(monitor.x, monitor.y)
        /\ (monitor = ScenarioMonitor /\ ww = 400 /\ wh = 300) =>
            /\ pos = "TopLeft" => Moved(0, 0)
            /\ pos = "TopRight" => Moved(1520, 0)
            /\ pos = "Center" => Moved(760, 390)
            /\ pos = "BottomRight" => Moved(1520, 780)

C3_Witness ==
    /\ pc = "set_position"
    /\ pos = "BottomRight"
    /\ monitor = ScenarioMonitor
    /\ ww = 400 /\ wh = 300

\* C4: for the six tray-relative requests with a tray anchor present, the
\* position handed to set_position is the tray table's, a function of the
\* anchor's position and width and of the window size alone; the worked
\* scenario gives TrayLeft=(1900,660), TrayBottomLeft=(1900,1060),
\* TrayCenter=(1760,660).
C4_TrayRelativeTable ==
    (pos \in TrayPositions /\ physical_pos.some) =>
        /\ trayAtLock.present
        /\ physical_pos.x = TrayRefX(pos, trayAtLock.x, trayAtLock.w, ww)
        /\ physical_pos.y = TrayRefY(pos, trayAtLock.y, wh)
        /\ (/\ trayAtLock.x = 1900 /\ trayAtLock.y = 1060 /\ trayAtLock.w = 20
            /\ ww = 300 /\ wh = 400) =>
            /\ pos = "TrayLeft" => Moved(1900, 660)
            /\ pos = "TrayBottomLeft" => Moved(1900, 1060)
            /\ pos = "TrayCenter" => Moved(1760, 660)

C4_Witness ==
    /\ pc = "set_position"
    /\ pos = "TrayCenter"
    /\ trayAtLock = ScenarioTray
    /\ monitor = SecondMonitor
    /\ ww = 300 /\ wh = 400

\* C5 as stated: for the Bottom* requests the resolved y equals the
\* conventional monitor_y + monitor_height - window_height only when
\* monitor_y = 0, and differs from it whenever monitor_y # 0.
C5_BottomDiffersOffOrigin ==
    (pos \in BottomPositions /\ physical_pos.some) =>
        ((physical_pos.y = (monitor.y + monitor.h) - wh) <=> (monitor.y = 0))

\* C5 as amended: for the Bottom* requests the resolved y equals the
\* conventional monitor_y + monitor_height - window_height on every input,
\* monitor_y # 0 included.
C5_BottomIsConventional ==
    (pos \in BottomPositions /\ physical_pos.some) =>
        physical_pos.y = (monitor.y + monitor.h) - wh

C5_Witness ==
    /\ pos \in BottomPositions
    /\ physical_pos.some
    /\ monitor.y # 0
    /\ wh > 0

\* C6: whatever the interleaving with the host's updates of the tray record,
\* the record a call sees under the lock is one recorded anchor, whole; the
\* position and the size it copies are both that anchor's; and its outcome is
\* decided by that anchor, whatever is recorded after the copy.
C6_TraySnapshotIsOneAnchor ==
    /\ (pc = "copy" \/ snapped) => trayAtLock \in RecordedAnchors
    /\ snapped =>
        IF trayAtLock.present
        THEN /\ tray_position = [some |-> TRUE, x |-> trayAtLock.x, y |-> trayAtLock.y]
             /\ tray_size = [some |-> TRUE, w |-> trayAtLock.w, h |-> trayAtLock.h]
        ELSE tray_position = NoPos /\ tray_size = NoSize
    /\ (pos \in TrayPositions /\ physical_pos.some) =>
        /\ trayAtLock.present
        /\ Moved(TrayRefX(pos, trayAtLock.x, trayAtLock.w, ww),
                 TrayRefY(pos, trayAtLock.y, wh))
    /\ (pos \in TrayPositions /\ snapped /\ pc = "panicked") => ~trayAtLock.present

C6_Witness ==
    /\ pos \in TrayPositions
    /\ physical_pos.some
    /\ trayAtLock.present
    /\ tray.present
    /\ tray # trayAtLock

\* C7: a positioning operation that failed has aborted only itself: its
\* caller has control again, the window is where it was, and the call does
\* not hold the tray lock.
C7_FailureAbortsOnlyTheOperation ==
    result \in { "Err", "Panic", "Rejected" } =>
        /\ pc = "idle"
        /\ winPos = winPosAtStart
        /\ trayLock # "mover"

\* The inputs of the resolution at hand are those of the first resolution.
SameInputsAsFirst ==
    /\ prev.set
    /\ prev.pos = pos
    /\ prev.mon = monitor
    /\ prev.ww = ww /\ prev.wh = wh
    /\ prev.tp = tray_position /\ prev.ts = tray_size

SameOutcomeAsFirst ==
    /\ pc = "set_position" => (~prev.panic /\ Moved(prev.x, prev.y))
    /\ pc = "panicked" => prev.panic

\* C8: a resolution on the inputs of an earlier one has the earlier one's
\* outcome, whatever calls came between; and no step of a call changes the
\* monitor geometry it was given, the window's size or the tray record.
C8_ResolutionIsDeterministic ==
    /\ []((SameInputsAsFirst /\ snapped /\ pc \in { "set_position", "panicked" })
            => SameOutcomeAsFirst)
    /\ [][pc' # pc =>
            /\ winSize' = winSize
            /\ tray' = tray
            /\ (snapped /\ snapped') => monitor' = monitor]_vars

C8_Witness ==
    /\ calls = 3
    /\ pc = "set_position"
    /\ pos = "Center"
    /\ SameInputsAsFirst
    /\ winPos # [x |-> 0, y |-> 0]
    /\ winPos # [x |-> physical_pos.x, y |-> physical_pos.y]

\* The wire codes, as the specification lists them.
WireTable ==
    << "TopLeft", "TopRight", "BottomLeft", "BottomRight", "TopCenter",
       "BottomCenter", "LeftCenter", "RightCenter", "Center", "TrayLeft",
       "TrayBottomLeft", "TrayRight", "TrayBottomRight", "TrayCenter",
       "TrayBottomCenter" >>

\* Each listed request has its listed code, and no two requests share a code.
CodesInDeclarationOrder ==
    /\ \A i \in 1 .. 15 : Discriminant(WireTable[i]) = i - 1
    /\ \A p, q \in Position : Discriminant(p) = Discriminant(q) => p = q

\* C9: the requests have the codes 0..14 in declaration order, without gap or
\* duplicate; a code decodes to the request with that code, and a code outside
\* 0..14 is rejected and starts no call.
C9_WireCodes ==
    /\ CodesInDeclarationOrder
    /\ decoded # "none" =>
        IF code \in 0 .. 14
        THEN decoded = WireTable[code + 1]
        ELSE /\ decoded = "Err"
             /\ result = "Rejected"
             /\ pc = "idle"
             /\ winPos = winPosAtStart

C9_Witness ==
    /\ code = 14
    /\ decoded = "TrayBottomCenter"
    /\ pos = "TrayBottomCenter"
    /\ pc = "set_position"

\* C10: the width and the height a call computes with are the window's outer
\* size at one instant of the call, however the window is resized meanwhile.
C10_SizeIsOneMeasurement ==
    measured => [w |-> ww, h |-> wh] \in sizesDuring
====
